---- MODULE Spec2Model ----
(***************************************************************************)
(* Model of src/main.py: the polling loop monitor_and_trade, the TTL       *)
(* cache, the risk scorer, the buy and sell executors and the position     *)
(* store (table tokens of meme_tokens.db).                                 *)
(*                                                                         *)
(* Number representation.  The program computes with floats; the model     *)
(* uses integers on fixed scales, chosen so that every value the model     *)
(* draws is exact on its scale:                                            *)
(*   - risk weights, scam_risk, trend scores, TREND_SCORE_MIN and          *)
(*     SCAM_RISK_MAX are in tenths (0.5 is 5);                             *)
(*   - token quantities (holdings, amounts sold) are in units of           *)
(*     1/QUnit token, so that halving by SELL_PERCENTAGE stays exact;      *)
(*   - prices (buy_price, probe price) are in units of 1/PriceUnit SOL     *)
(*     per token;                                                          *)
(*   - a route's out_amount is given already divided by 10^decimals        *)
(*     (buy) or by 10^9 * 0.001 (probe), i.e. as the quantity or price     *)
(*     the code derives from it.                                           *)
(***************************************************************************)
EXTENDS Integers, Sequences, FiniteSets, TLC

\* ---------------------------------------------------------------- bounds
\* Iterations of the polling loop a run may start.
MaxIter == 2

\* The candidate-token universe of the discovery service.
Tokens == {"t1", "t2"}

\* ------------------------------------------------- Settings (lines 22-42)
CHECK_INTERVAL == 60
VOLUME_THRESHOLD == 1000
LIQUIDITY_THRESHOLD == 500
TX_COUNT_THRESHOLD == 100
\* 0.5, in tenths
TREND_SCORE_MIN == 5
\* 0.5, in tenths
SCAM_RISK_MAX == 5
PROFIT_MULTIPLIER_MIN == 2
PROFIT_MULTIPLIER_MAX == 3
BUY_AMOUNT_SOL == 1
CACHE_EXPIRY == 300
\* SELL_PERCENTAGE = 0.5 = 1 / SELL_PERCENTAGE_DEN
SELL_PERCENTAGE_DEN == 2

\* stop_after_attempt(3) of every @retry decorator
MaxAttempts == 3
\* get_token_decimals: "return 6  # Fallback default"
FallbackDecimals == 6

\* update_scam_risk: (threshold, weight) of each factor, weights in tenths
SniperThreshold == 50
SniperWeight == 3
InsiderThreshold == 10
InsiderWeight == 2
LiquidityWeight == 4
TxCountWeight == 1

\* ---------------------------------------------------------------- scales
\* One whole token in quantity units: a position is halved at most once per
\* iteration, so MaxIter halvings of a whole number of tokens stay integral.
QUnit == 2 ^ MaxIter
\* Whole tokens the route of a buy reports as its output (out_amount /
\* 10^decimals).
BuyOutputs == {0, 1}
\* One SOL per token in price units: BUY_AMOUNT_SOL / n is exact for every
\* n of BuyOutputs.
RECURSIVE Product(_)
Product(S) == IF S = {} THEN 1
              ELSE LET x == CHOOSE y \in S : TRUE IN x * Product(S \ {x})
PriceUnit == Product(BuyOutputs \ {0})

VARIABLES
    pc,                 \* position of monitor_and_trade
    shutdown_event,     \* asyncio.Event set by SIGINT / SIGTERM
    API_KEY_RUGCHECK,   \* global credential: "" is None, "key" a bearer token
    iter,               \* iterations started
    now,                \* time.time()
    cache,              \* global cache: key -> [data, timestamp]
    written,            \* history: key -> [data, timestamp] of its last set
    tokens,             \* result of fetch_new_tokens in this iteration
    idx,                \* index of the candidate being processed
    trends,             \* result of fetch_market_trends in this iteration
    token_state,        \* the TokenState being analysed / traded
    attempt,            \* attempt number of the wrapped call in progress
    trade,              \* the execute_buy / execute_sell in progress
    db,                 \* committed rows of table tokens: address -> row
    conn,               \* uncommitted UPDATEs of the sell phase's connection
    rows,               \* rows fetched by the sell phase's SELECT
    ridx,               \* index of the row being processed
    results,            \* history: what the sell phase did with each row so far
    ev                  \* history: what the last step did

vars == <<pc, shutdown_event, API_KEY_RUGCHECK, iter, now, cache, written,
          tokens, idx, trends, token_state, attempt, trade, db, conn, rows,
          ridx, results, ev>>

\* ------------------------------------------------------------- TTL cache
Miss == [hit |-> FALSE, data |-> <<>>]

\* get_cached_data: the data of a fresh entry, else None (Miss).
get_cached_data_expired_inclusive(c, key, t) ==
    IF key \in DOMAIN c /\ t - c[key].timestamp <= CACHE_EXPIRY
    THEN [hit |-> TRUE, data |-> c[key].data]
    ELSE Miss

get_cached_data(c, key, t) ==
    IF key \in DOMAIN c /\ t - c[key].timestamp < CACHE_EXPIRY
    THEN [hit |-> TRUE, data |-> c[key].data]
    ELSE Miss

\* set_cached_data: cache[key] = {'data': data, 'timestamp': time.time()}
set_cached_data(c, key, data, t) ==
    [k \in DOMAIN c \cup {key} |->
        IF k = key THEN [data |-> data, timestamp |-> t] ELSE c[k]]

AnalyticsKey(t) == "analytics_" \o t
TrendsKey == "trends"

\* ----------------------------------------------------------- TokenState
\* TokenState.__init__
TokenState(token_address, decimals) ==
    [token_address |-> token_address, decimals |-> decimals,
     volume |-> 0, liquidity |-> 0, tx_count |-> 0, trend_score |-> 0,
     scam_risk |-> 0, buy_price |-> 0, holdings |-> 0,
     sniper_activity |-> 0, insider_trades |-> 0]

NoTokenState == TokenState("-", 0)

\* TokenState.update_analytics
update_analytics(ts, analytics) ==
    [ts EXCEPT !.volume = analytics.volume_24h,
               !.liquidity = analytics.liquidity,
               !.tx_count = analytics.tx_count_24h,
               !.sniper_activity = analytics.sniper_activity,
               !.insider_trades = analytics.insider_trades]

\* TokenState.update_scam_risk: the sum of the weights of the triggered
\* factors; value < threshold / 2 is written 2 * value < threshold.
update_scam_risk_inclusive(ts) ==
    [ts EXCEPT !.scam_risk =
        (IF ts.sniper_activity >= SniperThreshold THEN SniperWeight ELSE 0)
      + (IF ts.insider_trades >= InsiderThreshold THEN InsiderWeight ELSE 0)
      + (IF 2 * ts.liquidity <= LIQUIDITY_THRESHOLD THEN LiquidityWeight ELSE 0)
      + (IF 2 * ts.tx_count <= TX_COUNT_THRESHOLD THEN TxCountWeight ELSE 0)]

update_scam_risk(ts) ==
    [ts EXCEPT !.scam_risk =
        (IF ts.sniper_activity > SniperThreshold THEN SniperWeight ELSE 0)
      + (IF ts.insider_trades > InsiderThreshold THEN InsiderWeight ELSE 0)
      + (IF 2 * ts.liquidity < LIQUIDITY_THRESHOLD THEN LiquidityWeight ELSE 0)
      + (IF 2 * ts.tx_count < TX_COUNT_THRESHOLD THEN TxCountWeight ELSE 0)]

\* TokenState.update_holdings
update_holdings(ts, buy_price, holdings) ==
    [ts EXCEPT !.buy_price = buy_price, !.holdings = holdings]

\* The five buy gates of monitor_and_trade.
BuyGates_risk_inclusive(ts) ==
    /\ ts.volume >= VOLUME_THRESHOLD
    /\ ts.liquidity >= LIQUIDITY_THRESHOLD
    /\ ts.tx_count >= TX_COUNT_THRESHOLD
    /\ ts.trend_score >= TREND_SCORE_MIN
    /\ ts.scam_risk <= SCAM_RISK_MAX

BuyGates(ts) ==
    /\ ts.volume >= VOLUME_THRESHOLD
    /\ ts.liquidity >= LIQUIDITY_THRESHOLD
    /\ ts.tx_count >= TX_COUNT_THRESHOLD
    /\ ts.trend_score >= TREND_SCORE_MIN
    /\ ts.scam_risk < SCAM_RISK_MAX

\* execute_buy: buy_price = amount_in_sol / (out_amount / 10 ** decimals), for
\* an output of out_tokens whole tokens, in price units.
BuyPrice(amount_in_sol, out_tokens) == (amount_in_sol * PriceUnit) \div out_tokens

\* execute_buy: holdings = out_amount / 10 ** decimals, in quantity units.
BuyHoldings(out_tokens) == out_tokens * QUnit

\* trends.get(token_address, 0)
TrendOf(tr, t) == IF t \in DOMAIN tr THEN tr[t] ELSE 0

\* ------------------------------------------------ inputs (external world)
\* Lists the discovery service returns.
TokenLists == {<<>>, <<"t1">>, <<"t1", "t2">>}

\* The validated analytics payload of the polling loop's runs: it passes
\* every gate it feeds, with risk 0 (the trend gate decides).
BasePayload ==
    [volume_24h |-> VOLUME_THRESHOLD, liquidity |-> LIQUIDITY_THRESHOLD,
     tx_count_24h |-> TX_COUNT_THRESHOLD, sniper_activity |-> 10,
     insider_trades |-> 0]

AnalyticsPayloads == { BasePayload }

\* Validated analytics payloads for the scorer and the gates on their own:
\* every field at its trigger or gate value and next to it.
BoundaryPayloads ==
    [volume_24h : {VOLUME_THRESHOLD - 1, VOLUME_THRESHOLD},
     liquidity : {(LIQUIDITY_THRESHOLD \div 2) - 1, LIQUIDITY_THRESHOLD \div 2,
                  LIQUIDITY_THRESHOLD - 1, LIQUIDITY_THRESHOLD},
     tx_count_24h : {(TX_COUNT_THRESHOLD \div 2) - 1, TX_COUNT_THRESHOLD \div 2,
                     TX_COUNT_THRESHOLD - 1, TX_COUNT_THRESHOLD},
     sniper_activity : {SniperThreshold, SniperThreshold + 1},
     insider_trades : {InsiderThreshold, InsiderThreshold + 1}]

\* Trend mappings address -> score (tenths) the trend service returns; the
\* first is the empty mapping.
EmptyTrends == [t \in {} |-> 0]
TrendChoices ==
    { EmptyTrends, [t \in Tokens |-> TREND_SCORE_MIN] }

\* Trend mappings for the gates on their own: absent, below and at the minimum.
BoundaryTrends ==
    { EmptyTrends,
      [t \in Tokens |-> TREND_SCORE_MIN - 1],
      [t \in Tokens |-> TREND_SCORE_MIN] }

\* Decimals the mint of a token reports, when it can be read.
MintDecimals(t) == IF t = "t1" THEN 9 ELSE 6

\* get_token_decimals (lines 170-178): the mint's decimals, or the fallback
\* when reading them raises.
get_token_decimals(t) == {MintDecimals(t), FallbackDecimals}

\* Prices (price units) a probe route can imply: 0, and 1, 2 or 3 times each
\* possible buy price.
ProbePrices ==
    {0} \cup { m * BuyPrice(BUY_AMOUNT_SOL, n) :
                   m \in 1..PROFIT_MULTIPLIER_MAX, n \in BuyOutputs \ {0} }

\* Wall-clock seconds between the start of a sleep and the next loop test.
SleepElapsed == {CHECK_INTERVAL, CACHE_EXPIRY}

\* ---------------------------------------------------------- small helpers
Ev(kind, tok, ok, why) == [kind |-> kind, tok |-> tok, ok |-> ok, why |-> why]

NoTrade == [kind |-> "none", tok |-> "-", amount |-> 0, out_amount |-> 0,
            band |-> "none", price |-> 0]

NoPending == [t \in {} |-> 0]

\* The orderings of a finite set, as sequences.
Orderings(S) ==
    { s \in [1..Cardinality(S) -> S] : \A i, j \in 1..Cardinality(S) :
                                           i # j => s[i] # s[j] }

RowOf(d, t) == [token_address |-> t, buy_price |-> d[t].buy_price,
                holdings |-> d[t].holdings, decimals |-> d[t].decimals]

\* save_token_to_db: INSERT OR REPLACE of the row of token_state.
save_token_to_db(d, ts) ==
    [t \in DOMAIN d \cup {ts.token_address} |->
        IF t = ts.token_address
        THEN [buy_price |-> ts.buy_price, holdings |-> ts.holdings,
              decimals |-> ts.decimals]
        ELSE d[t]]

\* conn.commit(): the pending UPDATE ... SET holdings become durable.
Commit(d, pending) ==
    [t \in DOMAIN d |->
        IF t \in DOMAIN pending THEN [d[t] EXCEPT !.holdings = pending[t]]
        ELSE d[t]]

\* ------------------------------------------------------------------ Init
Init ==
    /\ pc = "startup"
    /\ shutdown_event = FALSE
    /\ API_KEY_RUGCHECK \in {"", "key"}
    /\ iter = 0
    /\ now = 0
    /\ cache = [k \in {} |-> 0]
    /\ written = [k \in {} |-> 0]
    /\ tokens = <<>>
    /\ idx = 0
    /\ trends = EmptyTrends
    /\ token_state = NoTokenState
    /\ attempt = 1
    /\ trade = NoTrade
    /\ db = [t \in {} |-> 0]
    /\ conn = NoPending
    /\ rows = <<>>
    /\ ridx = 0
    /\ results = <<>>
    /\ ev = Ev("none", "-", FALSE, "-")

\* ------------------------------------------------- control-flow helpers
\* The for loop over tokens (line 412): candidate i, or the sell phase.
NextCandidate_first_only(i) ==
    /\ idx' = i
    /\ attempt' = 1
    /\ pc' = IF i <= 1 /\ i <= Len(tokens) THEN "analytics" ELSE "sell_select"

NextCandidate(i) ==
    /\ idx' = i
    /\ attempt' = 1
    /\ pc' = IF i <= Len(tokens) THEN "analytics" ELSE "sell_select"

\* The for loop over rows (line 429): row i of rs, or the commit.
NextRow(i, rs) ==
    /\ ridx' = i
    /\ attempt' = 1
    /\ pc' = IF i <= Len(rs) THEN "sell_probe" ELSE "sell_commit"

\* except Exception of the loop body (lines 452-453): the error is logged
\* and the loop goes on to its sleep; a connection opened by the sell phase
\* is closed without a commit.
IterationError_fatal(why) ==
    /\ pc' = "done"
    /\ attempt' = 1
    /\ conn' = NoPending
    /\ trade' = NoTrade
    /\ ev' = Ev("error", "-", FALSE, why)

IterationError(why) ==
    /\ pc' = "sleep"
    /\ attempt' = 1
    /\ conn' = NoPending
    /\ trade' = NoTrade
    /\ ev' = Ev("error", "-", FALSE, why)

\* A wrapped call whose attempt failed with aiohttp.ClientError: tenacity
\* makes another attempt while fewer than MaxAttempts were made.
MayRetry_one_more == attempt < MaxAttempts + 1

MayRetry == attempt < MaxAttempts

Retry(name) ==
    /\ MayRetry
    /\ attempt' = attempt + 1
    /\ ev' = Ev("retry", "-", FALSE, name)

\* ------------------------------------------------------------ the signal
\* loop.add_signal_handler(sig, shutdown_event.set)
Signal ==
    /\ pc \notin {"done", "aborted"}
    /\ ~shutdown_event
    /\ shutdown_event' = TRUE
    /\ UNCHANGED <<pc, API_KEY_RUGCHECK, iter, now, cache, written, tokens,
                   idx, trends, token_state, attempt, trade, db, conn, rows,
                   ridx, results, ev>>

\* --------------------------------------------------- monitor_and_trade
\* Lines 389-404: the credential is obtained when none is configured; an
\* empty token ends the run.
StartupProceeds_always(token_val) == TRUE

StartupProceeds(token_val) == token_val # ""

Startup ==
    /\ pc = "startup"
    /\ IF API_KEY_RUGCHECK # ""
       THEN /\ pc' = "loop_top"
            /\ ev' = Ev("startup", "-", TRUE, "configured")
            /\ UNCHANGED API_KEY_RUGCHECK
       ELSE \E token_val \in {"", "key"} :
            /\ API_KEY_RUGCHECK' = token_val
            /\ pc' = IF StartupProceeds(token_val) THEN "loop_top" ELSE "aborted"
            /\ ev' = Ev("startup", "-", token_val # "", "login")
    /\ UNCHANGED <<shutdown_event, iter, now, cache, written, tokens, idx,
                   trends, token_state, attempt, trade, db, conn, rows, ridx,
                   results>>

\* while not shutdown_event.is_set() (line 406)
LoopEnters_always(shutdown) == TRUE

LoopEnters(shutdown) == ~shutdown

LoopTop ==
    /\ pc = "loop_top"
    /\ IF LoopEnters(shutdown_event)
       THEN /\ iter < MaxIter
            /\ iter' = iter + 1
            /\ pc' = "fetch_tokens"
            /\ ev' = Ev("iteration", "-", TRUE, "-")
       ELSE /\ pc' = "done"
            /\ ev' = Ev("exit", "-", TRUE, "-")
            /\ UNCHANGED iter
    /\ attempt' = 1
    /\ UNCHANGED <<shutdown_event, API_KEY_RUGCHECK, now, cache, written,
                   tokens, idx, trends, token_state, trade, db, conn, rows,
                   ridx, results>>

\* fetch_new_tokens (lines 102-110, called at line 409)
FetchNewTokens ==
    /\ pc = "fetch_tokens"
    /\ \/ \E l \in TokenLists :
            /\ tokens' = l
            /\ pc' = "fetch_trends"
            /\ attempt' = 1
            /\ ev' = Ev("request", "-", TRUE, "tokens")
            /\ UNCHANGED <<conn, trade>>
       \/ /\ Retry("tokens")
          /\ UNCHANGED <<pc, tokens, conn, trade>>
       \/ /\ ~MayRetry
          /\ IterationError("tokens")
          /\ UNCHANGED tokens
    /\ UNCHANGED <<shutdown_event, API_KEY_RUGCHECK, iter, now, cache, written,
                   idx, trends, token_state, db, rows, ridx, results>>

\* "if cached:" of fetch_market_trends: a hit whose mapping is not empty.
TrendsCacheUsable(cached) == cached.hit /\ DOMAIN cached.data # {}

\* fetch_market_trends (lines 131-150, called at line 410)
FetchMarketTrends ==
    /\ pc = "fetch_trends"
    /\ LET cached == get_cached_data(cache, TrendsKey, now) IN
       IF TrendsCacheUsable(cached)
       THEN /\ trends' = cached.data
            /\ NextCandidate(1)
            /\ ev' = Ev("cached", "-", TRUE, "trends")
            /\ UNCHANGED <<cache, conn, trade>>
       ELSE \/ \E tr \in TrendChoices :
                 /\ cache' = set_cached_data(cache, TrendsKey, tr, now)
                 /\ trends' = tr
                 /\ NextCandidate(1)
                 /\ ev' = Ev("request", "-", TRUE, "trends")
                 /\ UNCHANGED <<conn, trade>>
            \/ /\ trends' = EmptyTrends
               /\ NextCandidate(1)
               /\ ev' = Ev("request", "-", FALSE, "trends")
               /\ UNCHANGED <<cache, conn, trade>>
            \/ /\ Retry("trends")
               /\ UNCHANGED <<pc, idx, trends, cache, conn, trade>>
            \/ /\ ~MayRetry
               /\ IterationError("trends")
               /\ UNCHANGED <<idx, trends, cache>>
    /\ written' = cache'
    /\ UNCHANGED <<shutdown_event, API_KEY_RUGCHECK, iter, now, tokens,
                   token_state, db, rows, ridx, results>>

\* analyze_token, lines 335-342: fetch_token_analytics (lines 112-129),
\* get_token_decimals (lines 170-178), update_analytics, update_scam_risk.
Scored(t, decimals, analytics) ==
    update_scam_risk(update_analytics(TokenState(t, decimals), analytics))

AnalyzeTokenScore ==
    /\ pc = "analytics"
    /\ LET t == tokens[idx]
           cached == get_cached_data(cache, AnalyticsKey(t), now)
           decimalsRead == get_token_decimals(t)
       IN
       IF cached.hit
       THEN \E d \in decimalsRead :
            /\ token_state' = Scored(t, d, cached.data)
            /\ pc' = "rugcheck"
            /\ attempt' = 1
            /\ ev' = Ev("cached", t, TRUE, "analytics")
            /\ UNCHANGED <<cache, idx, conn, trade>>
       ELSE \/ \E a \in AnalyticsPayloads, d \in decimalsRead :
                 /\ cache' = set_cached_data(cache, AnalyticsKey(t), a, now)
                 /\ token_state' = Scored(t, d, a)
                 /\ pc' = "rugcheck"
                 /\ attempt' = 1
                 /\ ev' = Ev("request", t, TRUE, "analytics")
                 /\ UNCHANGED <<idx, conn, trade>>
            \/ /\ NextCandidate(idx + 1)
               /\ token_state' = NoTokenState
               /\ ev' = Ev("request", t, FALSE, "analytics")
               /\ UNCHANGED <<cache, conn, trade>>
            \/ /\ Retry("analytics")
               /\ UNCHANGED <<pc, idx, cache, token_state, conn, trade>>
            \/ /\ ~MayRetry
               /\ IterationError("analytics")
               /\ token_state' = NoTokenState
               /\ UNCHANGED <<idx, cache>>
    /\ written' = cache'
    /\ UNCHANGED <<shutdown_event, API_KEY_RUGCHECK, iter, now, tokens, trends,
                   db, rows, ridx, results>>

\* analyze_token, lines 343-346: the token survives iff the check passed.
Survives_unchecked(rug_ok) == TRUE

Survives(rug_ok) == rug_ok

\* The candidate after analyze_token returned (lines 416-423): a survivor
\* gets its trend score and is bought iff the gates hold.  ev records what
\* validate_token_rugcheck returned.
AfterAnalysis(rug_ok, why) ==
    LET t == tokens[idx]
        ts == [token_state EXCEPT !.trend_score = TrendOf(trends, t)]
    IN
    /\ ev' = Ev("rugcheck", t, rug_ok, why)
    /\ IF Survives(rug_ok)
       THEN /\ token_state' = ts
            /\ IF BuyGates(ts)
               THEN /\ pc' = "buy_route"
                    /\ attempt' = 1
                    /\ trade' = [kind |-> "buy", tok |-> t,
                                 amount |-> BUY_AMOUNT_SOL, out_amount |-> 0,
                                 band |-> "none", price |-> 0]
                    /\ UNCHANGED idx
               ELSE /\ NextCandidate(idx + 1)
                    /\ UNCHANGED trade
       ELSE /\ token_state' = NoTokenState
            /\ NextCandidate(idx + 1)
            /\ UNCHANGED trade

\* validate_token_rugcheck (lines 152-168), then lines 416-423.  With no
\* credential one is requested first; without one the check fails.
AnalyzeTokenRugcheck ==
    /\ pc = "rugcheck"
    /\ IF API_KEY_RUGCHECK = ""
       THEN \E token_val \in {"", "key"} :
            /\ API_KEY_RUGCHECK' = token_val
            /\ IF token_val = ""
               THEN AfterAnalysis(FALSE, "no_credential")
               ELSE /\ ev' = Ev("credential", tokens[idx], TRUE, "-")
                    /\ UNCHANGED <<pc, idx, token_state, trade, attempt>>
            /\ UNCHANGED conn
       ELSE /\ UNCHANGED API_KEY_RUGCHECK
            /\ \/ /\ AfterAnalysis(TRUE, "status")
                  /\ UNCHANGED conn
               \/ /\ AfterAnalysis(FALSE, "status")
                  /\ UNCHANGED conn
               \/ /\ Retry("rugcheck")
                  /\ UNCHANGED <<pc, idx, token_state, trade, conn>>
               \/ /\ ~MayRetry
                  /\ IterationError("rugcheck")
                  /\ token_state' = NoTokenState
                  /\ UNCHANGED idx
    /\ UNCHANGED <<shutdown_event, iter, now, cache, written, tokens, trends,
                   db, rows, ridx, results>>

\* ------------------------------------------------------ Trader.execute_buy
\* Every return of execute_buy (lines 275, 288, 294, 297, 300); the caller
\* ignores the value and goes on to the next candidate.
EndBuy(ok, why) ==
    /\ ev' = Ev("execute_buy", trade.tok, ok, why)
    /\ trade' = NoTrade
    /\ token_state' = NoTokenState
    /\ NextCandidate(idx + 1)

\* Lines 271-280: the route is requested; without "data" / "raw_tx" the buy
\* fails; the transaction is decoded and signed.  Any exception, a
\* RetryError included, is caught at line 298.
\* Lines 298-300: except Exception inside execute_buy, a RetryError of a
\* wrapped call included: the buy is reported as failed and the caller goes
\* on to the next candidate.
ExceptInBuy_propagates ==
    /\ IterationError("execute_buy")
    /\ token_state' = NoTokenState
    /\ UNCHANGED idx

ExceptInBuy == EndBuy(FALSE, "failed")

RouteUsable_always(has_data) == TRUE

RouteUsable(has_data) == has_data

BuyGetRoute ==
    /\ pc = "buy_route"
    /\ \/ \E has_data \in BOOLEAN :
            IF RouteUsable(has_data)
            THEN \E n \in BuyOutputs :
                 /\ trade' = [trade EXCEPT !.out_amount = n]
                 /\ pc' = "buy_submit"
                 /\ attempt' = 1
                 /\ ev' = Ev("signed", trade.tok, has_data, "buy")
                 /\ UNCHANGED <<idx, token_state>>
            ELSE EndBuy(FALSE, "failed")
       \/ /\ Retry("buy_route")
          /\ UNCHANGED <<pc, idx, trade, token_state>>
       \/ /\ ~MayRetry
          /\ ExceptInBuy
    /\ UNCHANGED <<shutdown_event, API_KEY_RUGCHECK, iter, now, cache, written,
                   tokens, trends, db, conn, rows, ridx, results>>

\* Lines 281-283: submit_transaction; no "hash" in the result fails the buy.
BuySubmit ==
    /\ pc = "buy_submit"
    /\ \/ /\ pc' = "buy_confirm"
          /\ attempt' = 1
          /\ ev' = Ev("submitted", trade.tok, TRUE, "buy")
          /\ UNCHANGED <<idx, trade, token_state>>
       \/ EndBuy(FALSE, "failed")
       \/ /\ Retry("buy_submit")
          /\ UNCHANGED <<pc, idx, trade, token_state>>
       \/ /\ ~MayRetry
          /\ ExceptInBuy
    /\ UNCHANGED <<shutdown_event, API_KEY_RUGCHECK, iter, now, cache, written,
                   tokens, trends, db, conn, rows, ridx, results>>

\* Lines 284-288: the position is recorded iff the transaction is confirmed
\* and the route's out_amount is not 0.
BuyPersists_unconfirmed(confirmed, out_amount) == out_amount # 0

BuyPersists(confirmed, out_amount) == confirmed /\ out_amount # 0

\* Lines 284-297: confirm_transaction, then update_holdings and
\* save_token_to_db, whose own errors are logged and swallowed (line 359).
\* ev records how far the attempt got.
BuyConfirm ==
    /\ pc = "buy_confirm"
    /\ \E confirmed \in BOOLEAN :
       LET reached == IF ~confirmed THEN "failed"
                      ELSE IF trade.out_amount = 0 THEN "zero_output"
                      ELSE "confirmed"
       IN
       IF BuyPersists(confirmed, trade.out_amount)
       THEN LET ts == update_holdings(token_state,
                          BuyPrice(trade.amount, trade.out_amount),
                          BuyHoldings(trade.out_amount))
            IN
            /\ \/ db' = save_token_to_db(db, ts)
               \/ db' = db
            /\ EndBuy(TRUE, reached)
       ELSE /\ EndBuy(FALSE, reached)
            /\ UNCHANGED db
    /\ UNCHANGED <<shutdown_event, API_KEY_RUGCHECK, iter, now, cache, written,
                   tokens, trends, conn, rows, ridx, results>>

\* --------------------------------------------------------- the sell phase
\* Lines 425-428: the connection is opened and the held positions read; an
\* error of the store propagates to the loop's except.
Held_any_quantity(d) == DOMAIN d

\* SELECT ... FROM tokens WHERE holdings > 0
Held(d) == {t \in DOMAIN d : d[t].holdings > 0}

SellSelect ==
    /\ pc = "sell_select"
    /\ \/ \E o \in Orderings(Held(db)) :
            LET rs == [i \in 1..Len(o) |-> RowOf(db, o[i])] IN
            /\ rows' = rs
            /\ results' = <<>>
            /\ conn' = NoPending
            /\ NextRow(1, rs)
            /\ ev' = Ev("select", "-", TRUE, "-")
            /\ UNCHANGED trade
       \/ /\ IterationError("select")
          /\ UNCHANGED <<rows, ridx, results>>
    /\ UNCHANGED <<shutdown_event, API_KEY_RUGCHECK, iter, now, cache, written,
                   tokens, idx, trends, token_state, db>>

\* Lines 441-446: profit_multiplier = current_price / buy_price against the
\* two bands; buy_price > 0, so m >= K is current_price >= K * buy_price.
ProfitBand_no_floor(current_price, buy_price) ==
    IF current_price >= PROFIT_MULTIPLIER_MAX * buy_price THEN "full"
    ELSE "partial"

ProfitBand(current_price, buy_price) ==
    IF current_price >= PROFIT_MULTIPLIER_MAX * buy_price THEN "full"
    ELSE IF current_price >= PROFIT_MULTIPLIER_MIN * buy_price THEN "partial"
    ELSE "none"

\* Lines 444 and 447: the quantity offered for sale.
SellAmount(band, holdings) ==
    IF band = "full" THEN holdings ELSE holdings \div SELL_PERCENTAGE_DEN

\* Lines 445 and 449-450: the quantity the UPDATE sets.
UpdatedHoldings(band, holdings, amount) ==
    IF band = "full" THEN 0 ELSE holdings - amount

\* A row the sell phase leaves alone (lines 437-440, or no band reached).
SkipRow(p) ==
    /\ results' = Append(results, [token |-> rows[ridx].token_address,
                                   price |-> p, band |-> "none",
                                   offered |-> 0, sold |-> FALSE])
    /\ token_state' = NoTokenState
    /\ NextRow(ridx + 1, rows)
    /\ UNCHANGED <<trade, conn>>

\* Lines 429-450 up to the call of execute_sell: the probe route and the
\* band decision.  A RetryError of the probe propagates to the loop.  ev
\* records the probe: whether the route carried data, and the price it
\* implies.
SellProbe ==
    /\ pc = "sell_probe"
    /\ LET row == rows[ridx]
           ts == [TokenState(row.token_address, row.decimals)
                     EXCEPT !.buy_price = row.buy_price,
                            !.holdings = row.holdings]
       IN
       \/ \E p \in ProbePrices :
            /\ ev' = Ev("probe", row.token_address, TRUE, p)
            /\ IF p = 0
               THEN SkipRow(p)
               ELSE LET band == ProfitBand(p, ts.buy_price) IN
                    IF band = "none"
                    THEN SkipRow(p)
                    ELSE /\ token_state' = ts
                         /\ trade' = [kind |-> "sell", tok |-> row.token_address,
                                      amount |-> SellAmount(band, ts.holdings),
                                      out_amount |-> 0, band |-> band,
                                      price |-> p]
                         /\ pc' = "sell_route"
                         /\ attempt' = 1
                         /\ UNCHANGED <<ridx, results, conn>>
       \/ /\ ev' = Ev("probe", row.token_address, FALSE, 0)
          /\ SkipRow(0)
       \/ /\ Retry("probe")
          /\ UNCHANGED <<pc, ridx, results, token_state, trade, conn>>
       \/ /\ ~MayRetry
          /\ IterationError("probe")
          /\ UNCHANGED <<ridx, results, token_state>>
    /\ UNCHANGED <<shutdown_event, API_KEY_RUGCHECK, iter, now, cache, written,
                   tokens, idx, trends, db, rows>>

\* Every return of execute_sell (lines 309, 321, 324, 327), followed by the
\* caller's UPDATE of the quantity (lines 445, 449-450), which does not read
\* the value returned.
EndSell(ok, why) ==
    LET row == rows[ridx]
        q == UpdatedHoldings(trade.band, row.holdings, trade.amount)
    IN
    /\ ev' = Ev("execute_sell", trade.tok, ok, why)
    /\ conn' = [t \in DOMAIN conn \cup {trade.tok} |->
                   IF t = trade.tok THEN q ELSE conn[t]]
    /\ results' = Append(results, [token |-> trade.tok, price |-> trade.price,
                                   band |-> trade.band,
                                   offered |-> trade.amount, sold |-> ok])
    /\ trade' = NoTrade
    /\ token_state' = NoTokenState
    /\ NextRow(ridx + 1, rows)

\* Lines 325-327: except Exception inside execute_sell: the sell is reported
\* as failed and the caller goes on with its UPDATE and the next row.
ExceptInSell == EndSell(FALSE, "failed")

\* Lines 304-314 of execute_sell.
SellGetRoute ==
    /\ pc = "sell_route"
    /\ \/ /\ pc' = "sell_submit"
          /\ attempt' = 1
          /\ ev' = Ev("signed", trade.tok, TRUE, "sell")
          /\ UNCHANGED <<ridx, trade, conn, results, token_state>>
       \/ EndSell(FALSE, "failed")
       \/ /\ Retry("sell_route")
          /\ UNCHANGED <<pc, ridx, trade, conn, results, token_state>>
       \/ /\ ~MayRetry
          /\ ExceptInSell
    /\ UNCHANGED <<shutdown_event, API_KEY_RUGCHECK, iter, now, cache, written,
                   tokens, idx, trends, db, rows>>

\* Lines 315-317 of execute_sell.
SellSubmit ==
    /\ pc = "sell_submit"
    /\ \/ /\ pc' = "sell_confirm"
          /\ attempt' = 1
          /\ ev' = Ev("submitted", trade.tok, TRUE, "sell")
          /\ UNCHANGED <<ridx, trade, conn, results, token_state>>
       \/ EndSell(FALSE, "failed")
       \/ /\ Retry("sell_submit")
          /\ UNCHANGED <<pc, ridx, trade, conn, results, token_state>>
       \/ /\ ~MayRetry
          /\ ExceptInSell
    /\ UNCHANGED <<shutdown_event, API_KEY_RUGCHECK, iter, now, cache, written,
                   tokens, idx, trends, db, rows>>

\* Lines 318-324 of execute_sell: True iff the transaction is confirmed.
SellConfirm ==
    /\ pc = "sell_confirm"
    /\ \E confirmed \in BOOLEAN :
         EndSell(confirmed, IF confirmed THEN "confirmed" ELSE "failed")
    /\ UNCHANGED <<shutdown_event, API_KEY_RUGCHECK, iter, now, cache, written,
                   tokens, idx, trends, db, rows>>

\* Line 451: conn.commit() makes the UPDATEs of the phase durable.
SellCommit ==
    /\ pc = "sell_commit"
    /\ db' = Commit(db, conn)
    /\ conn' = NoPending
    /\ pc' = "sleep"
    /\ ev' = Ev("commit", "-", TRUE, "-")
    /\ UNCHANGED <<shutdown_event, API_KEY_RUGCHECK, iter, now, cache, written,
                   tokens, idx, trends, token_state, attempt, trade, rows,
                   ridx, results>>

\* Line 454: await asyncio.sleep(settings.CHECK_INTERVAL).  The locals of the
\* iteration are dead after it (each is assigned again before it is read).
Sleep ==
    /\ pc = "sleep"
    /\ \E d \in SleepElapsed : now' = now + d
    /\ pc' = "loop_top"
    /\ ev' = Ev("slept", "-", TRUE, "-")
    /\ tokens' = <<>>
    /\ idx' = 0
    /\ trends' = EmptyTrends
    /\ token_state' = NoTokenState
    /\ rows' = <<>>
    /\ ridx' = 0
    /\ results' = <<>>
    /\ UNCHANGED <<shutdown_event, API_KEY_RUGCHECK, iter, cache, written,
                   attempt, trade, db, conn>>

\* The steps of the single task running monitor_and_trade.
Main ==
    \/ Startup
    \/ LoopTop
    \/ FetchNewTokens
    \/ FetchMarketTrends
    \/ AnalyzeTokenScore
    \/ AnalyzeTokenRugcheck
    \/ BuyGetRoute
    \/ BuySubmit
    \/ BuyConfirm
    \/ SellSelect
    \/ SellProbe
    \/ SellGetRoute
    \/ SellSubmit
    \/ SellConfirm
    \/ SellCommit
    \/ Sleep

Next == Main \/ Signal

Spec == Init /\ [][Next]_vars

\* Every await of the task returns: the task is never suspended forever.
FairSpec == Spec /\ WF_vars(Main)

\* ------------------------------------------------ positions and failed sells
\* At the sleep of an iteration, rows holds the positions as its sell phase
\* read them, results what was done with each of them, db the store as the
\* phase left it.

\* C1: a position whose execute_sell returned False (route, submit or
\* confirmation failed) has the same stored holdings after the iteration as
\* before it.
C1_FailedSellKeepsHoldings ==
    pc = "sleep" =>
        \A i \in DOMAIN results :
            (results[i].band # "none" /\ ~results[i].sold) =>
                db[rows[i].token_address].holdings = rows[i].holdings

\* C2: an execute_buy that does not reach Confirmed with a non-zero output
\* returns False and leaves the Position store as it was.
C2_FailedBuyWritesNothing ==
    [][(ev'.kind = "execute_buy" /\ pc \in {"buy_route", "buy_submit", "buy_confirm"}
            /\ ev'.why # "confirmed")
        => (~ev'.ok /\ db' = db)]_vars

\* A confirmed buy whose route reported a zero output has just returned.
C2_ZeroOutputBuy ==
    /\ ev.kind = "execute_buy"
    /\ ev.why = "zero_output"
    /\ ~ev.ok

\* ------------------------------------------- the scorer and the buy gates
\* One candidate at the start of analyze_token, its analytics payload in the
\* cache and the trend scores of the iteration fetched: every combination of
\* the boundary payloads and trend scores.
ScoreInit ==
    /\ pc = "analytics"
    /\ shutdown_event = FALSE
    /\ API_KEY_RUGCHECK = "key"
    /\ iter = 1
    /\ now = 0
    /\ \E a \in BoundaryPayloads :
         cache = set_cached_data([k \in {} |-> 0], AnalyticsKey("t1"), a, 0)
    /\ written = [k \in {} |-> 0]
    /\ tokens = <<"t1">>
    /\ idx = 1
    /\ trends \in BoundaryTrends
    /\ token_state = NoTokenState
    /\ attempt = 1
    /\ trade = NoTrade
    /\ db = [t \in {} |-> 0]
    /\ conn = NoPending
    /\ rows = <<>>
    /\ ridx = 0
    /\ results = <<>>
    /\ ev = Ev("none", "-", FALSE, "-")

ScoreNext == AnalyzeTokenScore \/ AnalyzeTokenRugcheck

ScoreSpec == ScoreInit /\ [][ScoreNext]_vars

\* C4: the risk score update_scam_risk leaves is the sum of the weights of the
\* factors triggered (0.3 sniper_activity > 50, 0.2 insider_trades > 10,
\* 0.4 liquidity < LIQUIDITY_THRESHOLD / 2, 0.1 tx_count < TX_COUNT_THRESHOLD
\* / 2, all strict); it lies in [0, 1] and is 0 when no factor triggers.
C4_RiskIsSumOfTriggeredWeights ==
    pc = "rugcheck" =>
        LET a == cache[AnalyticsKey(token_state.token_address)].data
            sniper == IF a.sniper_activity > 50 THEN 3 ELSE 0
            insider == IF a.insider_trades > 10 THEN 2 ELSE 0
            thin == IF 2 * a.liquidity < LIQUIDITY_THRESHOLD THEN 4 ELSE 0
            quiet == IF 2 * a.tx_count_24h < TX_COUNT_THRESHOLD THEN 1 ELSE 0
        IN
        /\ token_state.scam_risk = sniper + insider + thin + quiet
        /\ token_state.scam_risk \in 0..10
        /\ (sniper + insider + thin + quiet = 0) => token_state.scam_risk = 0

\* Every factor sits exactly on its trigger threshold and the score is 0.
C4_AllFactorsOnThreshold ==
    /\ pc = "rugcheck"
    /\ token_state.sniper_activity = 50
    /\ token_state.insider_trades = 10
    /\ 2 * token_state.liquidity = LIQUIDITY_THRESHOLD
    /\ 2 * token_state.tx_count = TX_COUNT_THRESHOLD
    /\ token_state.scam_risk = 0

\* C3: for a candidate that survived analysis, execute_buy is invoked iff
\* volume >= VOLUME_THRESHOLD, liquidity >= LIQUIDITY_THRESHOLD, tx_count >=
\* TX_COUNT_THRESHOLD, trend_score >= TREND_SCORE_MIN and scam_risk <
\* SCAM_RISK_MAX hold together; a risk equal to SCAM_RISK_MAX yields no buy.
C3_BuyIffFiveGates ==
    [][(pc = "rugcheck" /\ ev'.kind = "rugcheck" /\ ev'.ok)
        => LET a == cache[AnalyticsKey(tokens[idx])].data IN
           (pc' = "buy_route" /\ trade'.kind = "buy" /\ trade'.tok = tokens[idx])
             <=> /\ a.volume_24h >= VOLUME_THRESHOLD
                 /\ a.liquidity >= LIQUIDITY_THRESHOLD
                 /\ a.tx_count_24h >= TX_COUNT_THRESHOLD
                 /\ TrendOf(trends, tokens[idx]) >= TREND_SCORE_MIN
                 /\ token_state.scam_risk < SCAM_RISK_MAX]_vars

\* A survivor whose risk equals SCAM_RISK_MAX, every other gate on its
\* boundary, was not bought.
C3_RiskOnBoundaryNotBought ==
    /\ ev.kind = "rugcheck"
    /\ ev.ok
    /\ token_state.scam_risk = SCAM_RISK_MAX
    /\ token_state.volume = VOLUME_THRESHOLD
    /\ token_state.liquidity = LIQUIDITY_THRESHOLD
    /\ token_state.tx_count = TX_COUNT_THRESHOLD
    /\ token_state.trend_score = TREND_SCORE_MIN
    /\ pc # "buy_route"
    /\ trade = NoTrade

\* ------------------------------------------------------------ the sell phase
\* C5: a position with quantity q > 0 and a non-zero probe: at a multiplier
\* >= PROFIT_MULTIPLIER_MAX the whole of q is offered and after a successful
\* sell the persisted quantity is 0; at PROFIT_MULTIPLIER_MIN <= multiplier <
\* PROFIT_MULTIPLIER_MAX, q * SELL_PERCENTAGE is offered and after a
\* successful sell the persisted quantity is q - q * SELL_PERCENTAGE.
C5_ProfitBanding ==
    pc = "sleep" =>
        \A i \in DOMAIN results :
            LET q == rows[i].holdings
                p == results[i].price
                b == rows[i].buy_price
                stored == db[rows[i].token_address].holdings
            IN
            /\ (p # 0 /\ p >= PROFIT_MULTIPLIER_MAX * b) =>
                   /\ results[i].offered = q
                   /\ results[i].sold => stored = 0
            /\ (p # 0 /\ p >= PROFIT_MULTIPLIER_MIN * b
                      /\ p < PROFIT_MULTIPLIER_MAX * b) =>
                   /\ results[i].offered * SELL_PERCENTAGE_DEN = q
                   /\ results[i].sold => stored = q - results[i].offered

\* C6: a position whose probe carries no data, reports zero output or
\* implies a multiplier below PROFIT_MULTIPLIER_MIN is passed over: no
\* execute_sell, no write for it, the next position is processed, and at
\* the end of the iteration its row is the row that was read.
C6_SkippedPositionUntouched ==
    /\ [][(pc = "sell_probe" /\ ev'.kind = "probe"
              /\ shutdown_event' = shutdown_event
              /\ (~ev'.ok \/ ev'.why = 0
                    \/ ev'.why < PROFIT_MULTIPLIER_MIN * rows[ridx].buy_price))
          => /\ trade' = NoTrade
             /\ conn' = conn
             /\ db' = db
             /\ ridx' = ridx + 1
             /\ pc' = IF ridx < Len(rows) THEN "sell_probe" ELSE "sell_commit"]_vars
    /\ [](pc = "sleep" =>
            \A i \in DOMAIN results :
                results[i].price < PROFIT_MULTIPLIER_MIN * rows[i].buy_price
                    => RowOf(db, rows[i].token_address) = rows[i])

\* The first of two positions had a zero-output probe and the second one is
\* being probed.
C6_ZeroProbeThenNextPosition ==
    /\ pc = "sell_probe"
    /\ ridx = 2
    /\ ev.kind = "probe"
    /\ ev.ok
    /\ ev.why = 0
    /\ results[1].offered = 0

\* -------------------------------------------------------- reputation check
\* C8: a token whose reputation check did not return GOOD, or for which no
\* credential could be obtained, is discarded: execute_buy is not invoked for
\* it and the loop goes on to the next candidate.
C8_FailedCheckNeverBought ==
    [][(pc = "rugcheck" /\ ev'.kind = "rugcheck" /\ ~ev'.ok)
        => /\ pc' \in {"analytics", "sell_select"}
           /\ idx' = idx + 1
           /\ trade' = NoTrade
           /\ db' = db]_vars

\* A token that passes all five gates has just failed the reputation check
\* on its status.
C8_GatesHoldCheckFailed ==
    /\ ev.kind = "rugcheck"
    /\ ~ev.ok
    /\ ev.why = "status"
    /\ AnalyticsKey(ev.tok) \in DOMAIN cache
    /\ BuyGates([Scored(ev.tok, 0, cache[AnalyticsKey(ev.tok)].data)
                    EXCEPT !.trend_score = TrendOf(trends, ev.tok)])
    /\ trade = NoTrade

\* ---------------------------------------------------------------- the cache
\* get_cached_data and set_cached_data called in any order on two keys while
\* the clock moves through the instants around the expiry; written records,
\* for each key, the value and the time of its last set.
CacheKeys == {TrendsKey, AnalyticsKey("t1")}

CacheValues(key) ==
    IF key = TrendsKey
    THEN TrendChoices
    ELSE {BasePayload, [BasePayload EXCEPT !.liquidity = LIQUIDITY_THRESHOLD - 1]}

ClockValues == {0, 1, CACHE_EXPIRY - 1, CACHE_EXPIRY, CACHE_EXPIRY + 1}

CacheSet ==
    /\ \E key \in CacheKeys : \E data \in CacheValues(key) :
         /\ cache' = set_cached_data(cache, key, data, now)
         /\ written' = [k \in DOMAIN written \cup {key} |->
                           IF k = key THEN [data |-> data, timestamp |-> now]
                           ELSE written[k]]
         /\ ev' = Ev("set", key, TRUE, data)
    /\ UNCHANGED <<pc, shutdown_event, API_KEY_RUGCHECK, iter, now, tokens, idx,
                   trends, token_state, attempt, trade, db, conn, rows, ridx,
                   results>>

CacheGet ==
    /\ \E key \in CacheKeys :
         LET cached == get_cached_data(cache, key, now) IN
         ev' = Ev("get", key, cached.hit, cached.data)
    /\ UNCHANGED <<pc, shutdown_event, API_KEY_RUGCHECK, iter, now, cache,
                   written, tokens, idx, trends, token_state, attempt, trade,
                   db, conn, rows, ridx, results>>

CacheTick ==
    /\ \E t \in ClockValues :
         /\ t > now
         /\ now' = t
    /\ ev' = Ev("tick", "-", TRUE, "-")
    /\ UNCHANGED <<pc, shutdown_event, API_KEY_RUGCHECK, iter, cache, written,
                   tokens, idx, trends, token_state, attempt, trade, db, conn,
                   rows, ridx, results>>

CacheNext == CacheSet \/ CacheGet \/ CacheTick

CacheSpec == Init /\ [][CacheNext]_vars

\* C7: a get of key K returns the value of the last set of K while now -
\* timestamp < CACHE_EXPIRY, and a miss once now - timestamp >= CACHE_EXPIRY
\* or when K was never set; the cache always holds exactly what the sets
\* stored (a get neither writes nor evicts).
C7_CacheRoundTrip ==
    /\ cache = written
    /\ ev.kind = "get" =>
         IF ev.tok \in DOMAIN written
               /\ now - written[ev.tok].timestamp < CACHE_EXPIRY
         THEN ev.ok /\ ev.why = written[ev.tok].data
         ELSE ~ev.ok

\* A get exactly CACHE_EXPIRY seconds after the set missed, and the entry is
\* still stored.
C7_MissAtExpiryEntryKept ==
    /\ ev.kind = "get"
    /\ ~ev.ok
    /\ ev.tok \in DOMAIN cache
    /\ now - cache[ev.tok].timestamp = CACHE_EXPIRY

\* ------------------------------------------------- shutdown and loop errors
\* C9: once shutdown is requested no new iteration is started; the request
\* itself changes nothing but the flag, so the iteration in flight goes on; a
\* trade that was submitted always ends Confirmed or Failed; the loop is left
\* only at its test; and, every call returning, the loop exits.
C9_CooperativeShutdown ==
    /\ [][shutdown_event => iter' = iter]_vars
    /\ [][shutdown_event' # shutdown_event =>
            UNCHANGED <<pc, iter, tokens, idx, token_state, attempt, trade,
                        db, conn, rows, ridx, results>>]_vars
    /\ [][(pc = "buy_confirm" \/ pc = "sell_confirm") =>
            ((pc' = pc /\ trade' = trade)
               \/ (ev'.kind \in {"execute_buy", "execute_sell"}
                     /\ ev'.tok = trade.tok))]_vars
    /\ [][(pc' = "done" /\ pc # "done") => (pc = "loop_top" /\ shutdown_event)]_vars
    /\ (shutdown_event ~> pc \in {"done", "aborted"})

\* The loop has exited on a shutdown request after at least one iteration.
C9_ExitedAfterRequest ==
    /\ pc = "done"
    /\ shutdown_event
    /\ iter >= 1

\* C10: an error raised inside an iteration takes the loop to its sleep; the
\* loop ends only on a shutdown request; the sleep lasts at least
\* CHECK_INTERVAL and leads to the loop test, which starts the next iteration
\* unless shutdown was requested.
C10_IterationErrorsCaught ==
    /\ [](pc = "done" => shutdown_event)
    /\ [][(ev'.kind = "error" /\ ev' # ev) => pc' = "sleep"]_vars
    /\ [][(pc = "sleep" /\ pc' # pc) =>
            (pc' = "loop_top" /\ now' >= now + CHECK_INTERVAL)]_vars
    /\ [][(pc = "loop_top" /\ pc' # pc /\ ~shutdown_event) =>
            (pc' = "fetch_tokens" /\ iter' = iter + 1)]_vars

\* An error of the first iteration was caught and the loop, not asked to shut
\* down, is at its sleep with an iteration still to come.
C10_ErrorCaughtLoopSleeps ==
    /\ ev.kind = "error"
    /\ pc = "sleep"
    /\ ~shutdown_event
    /\ iter < MaxIter

\* ------------------------------------------------------------------ startup
\* C11: when no credential is configured and the login at startup yields
\* none, monitor_and_trade returns before its loop: no iteration, no fetch,
\* no trade and no position write happen in that run, then or later.
C11_StartupFailureIsFatal ==
    /\ [][(pc = "startup" /\ pc' # pc /\ API_KEY_RUGCHECK' = "")
            => pc' = "aborted"]_vars
    /\ [](pc = "aborted" =>
            /\ API_KEY_RUGCHECK = ""
            /\ iter = 0
            /\ tokens = <<>>
            /\ DOMAIN cache = {}
            /\ DOMAIN db = {}
            /\ DOMAIN conn = {}
            /\ trade = NoTrade)
    /\ [][pc = "aborted" => pc' = "aborted"]_vars

\* The run has ended at startup for want of a credential.
C11_RunAborted ==
    /\ pc = "aborted"
    /\ ev.kind = "startup"
    /\ ~ev.ok

\* ------------------------------------------------------- order of the phases
\* C12: the sell phase of an iteration starts only when every discovered
\* candidate has been evaluated; after a sell-phase step no buy-phase step
\* follows before the sleep; and the one trade in flight is a buy in the buy
\* phase, a sell in the sell phase, and none anywhere else.
C12_BuyPhaseBeforeSellPhase ==
    /\ [](pc \in {"sell_select", "sell_probe", "sell_route", "sell_submit",
                  "sell_confirm", "sell_commit"}
            => (idx = Len(tokens) + 1 /\ trade.kind # "buy"))
    /\ [][(pc = "sell_select" \/ pc = "sell_probe" \/ pc = "sell_route"
             \/ pc = "sell_submit" \/ pc = "sell_confirm" \/ pc = "sell_commit")
           => pc' \in {"sell_select", "sell_probe", "sell_route", "sell_submit",
                       "sell_confirm", "sell_commit", "sleep"}]_vars
    /\ [](trade.kind = "buy"
            <=> pc \in {"buy_route", "buy_submit", "buy_confirm"})
    /\ [](trade.kind = "sell"
            <=> pc \in {"sell_route", "sell_submit", "sell_confirm"})

\* Two candidates were evaluated, both bought, and the sell phase is now
\* selling the second position.
C12_SellPhaseAfterTwoCandidates ==
    /\ pc = "sell_confirm"
    /\ Len(tokens) = 2
    /\ idx = 3
    /\ ridx = 2
    /\ trade.kind = "sell"

\* ------------------------------------------------------------ wrapped calls
\* C13: a wrapped call makes at most 3 attempts; an attempt after the first
\* is made only on a transport failure of the one before, at the same call
\* and without a cache write; a payload validation failure ends the call at
\* once, empty and with the cache unwritten; and an error of a wrapped call
\* reaches the loop only when the third attempt has failed.
C13_AtMostThreeAttempts ==
    /\ [](attempt \in 1..3)
    /\ [][attempt' > attempt =>
            /\ attempt' = attempt + 1
            /\ ev'.kind = "retry"
            /\ pc' = pc
            /\ cache' = cache]_vars
    /\ [][(ev'.kind = "request" /\ ~ev'.ok
              /\ shutdown_event' = shutdown_event) =>
            /\ cache' = cache
            /\ attempt' = 1
            /\ (pc = "fetch_trends" => (trends' = EmptyTrends /\ pc' # pc))
            /\ (pc = "analytics" =>
                   (token_state' = NoTokenState /\ idx' = idx + 1))]_vars
    /\ [][(ev'.kind = "error" /\ shutdown_event' = shutdown_event
              /\ ev'.why \in {"tokens", "trends", "analytics", "rugcheck",
                              "probe"})
            => attempt = 3]_vars

\* Two attempts of the analytics call failed in transport and the third is
\* about to be made.
C13_ThirdAttemptPending ==
    /\ pc = "analytics"
    /\ attempt = 3
    /\ ev.kind = "retry"
    /\ ev.why = "analytics"

\* --------------------------------------------------------------- credential
\* C14: after a reputation request made with the held credential has failed,
\* a new credential is requested before the next reputation request is
\* sent; and a held credential is replaced only after such a failure.
C14_CredentialRefreshedOnFailure ==
    /\ [][(pc = "rugcheck" /\ ev.kind = "retry" /\ ev.why = "rugcheck"
              /\ shutdown_event' = shutdown_event)
            => ev'.kind = "credential"]_vars
    /\ [][(API_KEY_RUGCHECK # "" /\ API_KEY_RUGCHECK' # API_KEY_RUGCHECK)
            => (ev.kind = "retry" /\ ev.why = "rugcheck")]_vars

\* ------------------------------------------------- the order of a buy attempt
\* C15: a buy is signed and submitted only on a route that carried raw
\* transaction data, its confirmation is polled only after a submit that
\* returned a hash, and the position is written only by the step that saw
\* the confirmation; an attempt the route step ends has failed, with nothing
\* signed, submitted or written.
C15_BuyStepsInOrder ==
    /\ [][(pc' = "buy_submit" /\ pc # "buy_submit")
            => (pc = "buy_route" /\ ev'.kind = "signed" /\ ev'.ok)]_vars
    /\ [][(pc' = "buy_confirm" /\ pc # "buy_confirm")
            => (pc = "buy_submit" /\ ev'.kind = "submitted" /\ ev'.ok)]_vars
    /\ [][(pc # "sell_commit" /\ db' # db)
            => (pc = "buy_confirm" /\ ev'.kind = "execute_buy"
                  /\ ev'.why = "confirmed")]_vars
    /\ [][(pc = "buy_route" /\ ev'.kind = "execute_buy")
            => (~ev'.ok /\ db' = db /\ trade' = NoTrade
                  /\ pc' \in {"analytics", "sell_select"})]_vars

\* A buy went through route, signature, submit and confirmation and its
\* position is stored.
C15_BuyWentThroughAllSteps ==
    /\ ev.kind = "execute_buy"
    /\ ev.ok
    /\ ev.why = "confirmed"
    /\ ev.tok \in DOMAIN db
    /\ db[ev.tok].holdings > 0

\* ------------------------------------------------------------------ decimals
\* C16: every TokenState built for a token address carries the decimals of
\* the row persisted for that address.
C16_DecimalsStableInSession ==
    (token_state.token_address \in DOMAIN db)
        => token_state.decimals = db[token_state.token_address].decimals

C18_CacheShieldsServices ==
    [][(shutdown_event' = shutdown_event) =>
         /\ (pc = "fetch_trends" /\ get_cached_data(cache, TrendsKey, now).hit)
               => ev'.kind = "cached"
         /\ (pc = "analytics"
               /\ get_cached_data(cache, AnalyticsKey(tokens[idx]), now).hit)
               => ev'.kind = "cached"
         /\ (pc = "fetch_tokens" /\ get_cached_data(cache, TrendsKey, now).hit)
               => ev'.kind = "cached"]_vars

\* ---------------------------------------------------- ownership accounting
\* C19: the persisted quantity of a token moves only by what was acquired
\* and what was sold: a buy that changes the store leaves the quantity held
\* before plus the quantity acquired, and the commit of a sell phase lowers
\* each quantity by exactly what a confirmed sell of that position sold.
C19_OwnershipAccounting ==
    [][/\ (pc = "buy_confirm" /\ db' # db) =>
            db'[trade.tok].holdings =
                (IF trade.tok \in DOMAIN db THEN db[trade.tok].holdings ELSE 0)
                  + BuyHoldings(trade.out_amount)
       /\ (pc = "sell_commit" /\ pc' = "sleep") =>
            \A t \in DOMAIN db :
                IF \E i \in DOMAIN results :
                       results[i].token = t /\ results[i].sold
                THEN \E i \in DOMAIN results :
                       /\ results[i].token = t
                       /\ db'[t].holdings = db[t].holdings - results[i].offered
                ELSE db'[t].holdings = db[t].holdings]_vars

\* ------------------------------------------- durability in the sell phase
\* C20: at the end of an iteration, every position whose sell was confirmed
\* in this sell phase has its lowered quantity in the store, whatever
\* happened to the positions processed after it.
C20_ConfirmedSellDurable ==
    pc = "sleep" =>
        \A i \in DOMAIN results :
            results[i].sold =>
                db[results[i].token].holdings
                    = rows[i].holdings - results[i].offered

\* ---------------------------------------------------- the scope of an error
\* C21: an error that leaves analyze_token (retries of the analytics or of
\* the reputation request exhausted) ends the iteration: the loop goes
\* straight to its sleep with the remaining candidates unprocessed, nothing
\* bought, the sell phase not run and the store untouched, and the sleep
\* leads only to the next iteration.  An error inside execute_buy or
\* execute_sell never reaches the loop: the step that leaves execute_buy
\* reports the trade and moves to the next candidate (or to the sell phase
\* after the last one), the step that leaves execute_sell reports the trade
\* and moves to the next position (or to the commit after the last one).
C21_ErrorScope ==
    /\ [][((pc = "analytics" \/ pc = "rugcheck") /\ ev'.kind = "error"
              /\ shutdown_event' = shutdown_event)
          => /\ pc' = "sleep"
             /\ idx' = idx
             /\ db' = db
             /\ trade' = NoTrade
             /\ rows' = <<>>
             /\ results' = <<>>]_vars
    /\ [](((pc = "sleep" /\ ev.kind = "error")
              /\ (ev.why = "analytics" \/ ev.why = "rugcheck"))
          => /\ idx <= Len(tokens)
             /\ trade = NoTrade
             /\ rows = <<>>
             /\ results = <<>>
             /\ conn = NoPending)
    /\ [][(pc = "sleep" /\ pc' # pc) => (pc' = "loop_top" /\ db' = db)]_vars
    /\ [][((pc = "buy_route" \/ pc = "buy_submit" \/ pc = "buy_confirm")
              /\ shutdown_event' = shutdown_event)
          => /\ ev'.kind # "error"
             /\ \/ /\ pc' = "buy_submit" \/ pc' = "buy_confirm" \/ pc' = pc
                   /\ idx' = idx
                \/ /\ ev'.kind = "execute_buy"
                   /\ idx' = idx + 1
                   /\ pc' = IF idx < Len(tokens) THEN "analytics"
                            ELSE "sell_select"]_vars
    /\ [][((pc = "sell_route" \/ pc = "sell_submit" \/ pc = "sell_confirm")
              /\ shutdown_event' = shutdown_event)
          => /\ ev'.kind # "error"
             /\ \/ /\ pc' = "sell_submit" \/ pc' = "sell_confirm" \/ pc' = pc
                   /\ ridx' = ridx
                \/ /\ ev'.kind = "execute_sell"
                   /\ ridx' = ridx + 1
                   /\ pc' = IF ridx < Len(rows) THEN "sell_probe"
                            ELSE "sell_commit"]_vars

\* An error of analyze_token on the first of two candidates has ended an
\* iteration in which positions were held: the second candidate was not
\* analysed and the positions were not read.
C21_AnalysisErrorEndedIteration ==
    /\ pc = "sleep"
    /\ ev.kind = "error"
    /\ ev.why = "analytics" \/ ev.why = "rugcheck"
    /\ idx < Len(tokens)
    /\ Held(db) # {}
    /\ rows = <<>>

====
